---- MODULE Spec2Model ----
(***************************************************************************)
(* Transaction thread of ydn-db (src/src/ydn/db/tr/thread.js): the         *)
(* scheduling and continuation logic of ydn.db.tr.Thread, together with    *)
(* the collaborators the base class leaves abstract (processTx, exec, the  *)
(* initiating ydn.db.Request, the client coroutine and the transaction     *)
(* events of the storage engine).                                          *)
(*                                                                         *)
(* Every handler is a function from a state record to a state record, so   *)
(* that a handler can call another one the way the JavaScript does; an     *)
(* action applies one whole handler to the current state.                  *)
(***************************************************************************)
EXTENDS Naturals, Sequences, FiniteSets

VARIABLES
    tx_no_,       \* this.tx_no_
    r_no_,        \* this.r_no_
    generator_,   \* this.generator_ : "undefined", "null" or a generator
    gen_req_,     \* this.gen_req_   : "null" or a request
    break_tx_,    \* this.break_tx_
    policy,       \* this.policy
    scope_store_names, \* this.scope_store_names
    scope_mode,   \* this.scope_mode
    txs,          \* transactions opened by processTx, in opening order
    ops,          \* requests created by request(), in creation order
    timers,       \* pending setTimeout tasks of sendNext_: the value each holds
    genState,     \* the coroutine: "new", "suspended" or "done"
    pc,           \* the number of resume steps the coroutine body has taken
    received,     \* the requests whose settlement the coroutine body was resumed with
    reqs,         \* the initiating requests: settlement state of each
    commits,      \* commit() calls since break_tx_ was last false: "none", "once", "repeated"
    lastCall      \* the handler that ran last: its input, the error it threw, the
                  \* value it passed to generator_['next'], and for the static
                  \* abort the handle it was given and what it did with it

vars == <<tx_no_, r_no_, generator_, gen_req_, break_tx_, policy, scope_store_names,
          scope_mode, txs, ops, timers, genState, pc, received, reqs, commits, lastCall>>

----------------------------------------------------------------------------
(* Bounds of the model *)

\* requests created by client code outside the coroutine in one run
MaxClientOps == 1

----------------------------------------------------------------------------
(* Values *)

\* The coroutines a client binds. Each is the list of its resume steps: in a
\* step the body creates `issue` requests, may call commit(), and then yields
\* (fin = FALSE) or returns (fin = TRUE).
Step(n, c, f) == [issue |-> n, commit |-> c, fin |-> f]

Script(g) ==
    CASE g = "commitMid" -> <<Step(1, TRUE, FALSE), Step(1, FALSE, FALSE), Step(0, FALSE, TRUE)>>
      [] g = "commitEnd" -> <<Step(1, FALSE, FALSE), Step(0, TRUE, TRUE)>>
      [] g = "parCommit" -> <<Step(2, TRUE, FALSE), Step(0, FALSE, FALSE), Step(0, FALSE, TRUE)>>
      [] g = "scenario" -> <<Step(1, FALSE, FALSE), Step(1, TRUE, FALSE), Step(1, FALSE, FALSE),
                             Step(1, FALSE, FALSE), Step(0, FALSE, TRUE)>>
      [] g = "seq1" -> <<Step(1, FALSE, FALSE), Step(0, FALSE, TRUE)>>
      [] g = "seq2" -> <<Step(1, FALSE, FALSE), Step(1, FALSE, FALSE), Step(0, FALSE, TRUE)>>
      [] g = "seq3" -> <<Step(1, FALSE, FALSE), Step(1, FALSE, FALSE), Step(1, FALSE, FALSE),
                         Step(0, FALSE, TRUE)>>
      [] g = "writes" -> <<Step(3, FALSE, FALSE), Step(0, FALSE, FALSE), Step(0, FALSE, FALSE),
                           Step(0, FALSE, TRUE)>>
      [] g = "writesCommit" -> <<Step(3, FALSE, FALSE), Step(0, FALSE, FALSE),
                                 Step(0, FALSE, FALSE), Step(0, TRUE, TRUE)>>

Gens == {"commitMid", "commitEnd", "parCommit", "scenario"}
\* coroutines that issue N operations one after the other, N = 1, 2, 3
SeqGens == {"seq1", "seq2", "seq3"}
\* coroutines that queue three writes at once; the second one calls commit()
\* after the last settlement and returns
WriteGens == {"writes", "writesCommit"}
Reqs == {"q1", "q2"}

\* the step a generator takes on its n-th resume; past its last step it returns
StepOf(g, n) ==
    IF g \in Gens \cup SeqGens \cup WriteGens /\ n <= Len(Script(g))
    THEN Script(g)[n] ELSE Step(0, FALSE, TRUE)

\* the number of operations a coroutine issues in its whole run
RECURSIVE IssuedFrom(_, _)
IssuedFrom(g, n) ==
    IF n > Len(Script(g)) THEN 0 ELSE Script(g)[n].issue + IssuedFrom(g, n + 1)

NoValue == [kind |-> "undefined", id |-> "undefined", error |-> "none"]
\* lastCall.nextArg of a handler that did not call generator_['next']
NoCall == [kind |-> "nocall", id |-> "nocall", error |-> "none"]
\* lastCall.input of a handler that is no settlement
NoInput == [ok |-> TRUE, v |-> NoValue]
SuccessValues == {[kind |-> "val", id |-> "v1", error |-> "none"]}
ErrorObjects == {[kind |-> "Error", id |-> "e1", error |-> "none"]}
PlainReasons == {[kind |-> "plain", id |-> "disk full", error |-> "none"]}

Outcomes ==
    [ok : {TRUE}, v : SuccessValues] \cup [ok : {FALSE}, v : ErrorObjects \cup PlainReasons]

\* ydn.db.tr.Thread.Policy
MULTI == "multi"
REPEAT == "repeat"
ALL == "all"
ATOMIC == "atomic"
SINGLE == "single"
Policy == {MULTI, REPEAT, ALL, ATOMIC, SINGLE}

\* A transaction handle as the static abort sees it: the transaction it stands
\* for (0 for a null handle) and what its abort and executeSql properties are.
Surfaces == {"function", "undefined", "object"}
NullHandle == [k |-> 0, abort |-> "undefined", executeSql |-> "undefined"]

\* ydn.db.base.TxEventTypes
COMPLETE == "complete"
ABORT == "abort"
ERROR == "error"
TxEventTypes == {COMPLETE, ABORT, ERROR}

----------------------------------------------------------------------------
(* The state as one record *)

S == [tx_no_ |-> tx_no_, r_no_ |-> r_no_, generator_ |-> generator_,
      gen_req_ |-> gen_req_, break_tx_ |-> break_tx_, policy |-> policy,
      scope_store_names |-> scope_store_names, scope_mode |-> scope_mode,
      txs |-> txs, ops |-> ops,
      timers |-> timers, genState |-> genState, pc |-> pc, received |-> received,
      reqs |-> reqs, commits |-> commits, err |-> "none",
      input |-> NoInput, nextArg |-> NoCall, arg |-> NullHandle, effect |-> "none"]

Apply(name, t) ==
    /\ tx_no_' = t.tx_no_
    /\ r_no_' = t.r_no_
    /\ generator_' = t.generator_
    /\ gen_req_' = t.gen_req_
    /\ break_tx_' = t.break_tx_
    /\ policy' = t.policy
    /\ scope_store_names' = t.scope_store_names
    /\ scope_mode' = t.scope_mode
    /\ txs' = t.txs
    /\ ops' = t.ops
    /\ timers' = t.timers
    /\ genState' = t.genState
    /\ pc' = t.pc
    /\ received' = t.received
    /\ reqs' = t.reqs
    /\ commits' = IF t.break_tx_ THEN t.commits ELSE "none"
    /\ lastCall' = [op |-> name, err |-> t.err, input |-> t.input, nextArg |-> t.nextArg,
                    arg |-> t.arg, effect |-> t.effect]

\* JavaScript truthiness and goog.isDef of this.generator_
Truthy(g) == g \notin {"undefined", "null"}
isDef(g) == g # "undefined"

----------------------------------------------------------------------------
(* ydn.db.tr.Thread *)

\* the constructor
Thread ==
    [tx_no_ |-> 0, r_no_ |-> 0, generator_ |-> "undefined", gen_req_ |-> "null",
     break_tx_ |-> FALSE]

policyOfDefaultsAll(opt_policy) == IF opt_policy = "undefined" THEN ALL ELSE opt_policy

\* this.policy = opt_policy || ydn.db.tr.Thread.Policy.SINGLE
policyOf(opt_policy) == IF opt_policy = "undefined" THEN SINGLE ELSE opt_policy

getTxNo(s) == s.tx_no_

\* setGenerator without its assertion: a second call rebinds
setGeneratorRebinds(s, gen, req) ==
    [s EXCEPT !.generator_ = gen, !.gen_req_ = req]

\* goog.asserts.assert(!this.generator_, ...) throws when a generator is bound
setGenerator(s, gen, req) ==
    IF Truthy(s.generator_)
    THEN [s EXCEPT !.err = "AssertionError"]
    ELSE [s EXCEPT !.generator_ = gen, !.gen_req_ = req]

\* commit() that counts the transaction boundary at once
commitCountsTx(s) ==
    IF ~isDef(s.generator_)
    THEN [s EXCEPT !.err = "InvalidOperation: not running in a generator"]
    ELSE IF Truthy(s.generator_)
         THEN [s EXCEPT !.break_tx_ = TRUE, !.tx_no_ = @ + 1, !.r_no_ = 0]
         ELSE [s EXCEPT !.err = "InvalidOperation: has been ended"]

commit(s) ==
    IF ~isDef(s.generator_)
    THEN [s EXCEPT !.err = "InvalidOperation: not running in a generator"]
    ELSE IF Truthy(s.generator_)
         THEN [s EXCEPT !.break_tx_ = TRUE]
         ELSE [s EXCEPT !.err = "InvalidOperation: has been ended"]

\* request() whose callbacks look for the generator when they run
requestWiredLate(s, issuer) ==
    [s EXCEPT !.ops = Append(@, [issuer |-> issuer, wired |-> TRUE,
                                 tx |-> 0, state |-> "pending"])]

\* request(): a new ydn.db.Request, wired to sendNext_ when a generator is bound
request(s, issuer) ==
    [s EXCEPT !.ops = Append(@, [issuer |-> issuer, wired |-> Truthy(s.generator_),
                                 tx |-> 0, state |-> "pending"])]

\* processTx: a new transaction is opened over the given scope with the
\* given completion handler
processTx(s, store_names, opt_mode, oncompleted) ==
    [s EXCEPT !.txs = Append(@, [state |-> "active", oncompleted |-> oncompleted,
                                 store_names |-> store_names, mode |-> opt_mode,
                                 aborting |-> FALSE]),
              !.tx_no_ = @ + 1,
              !.r_no_ = 0]

\* exec: with policy SINGLE the request just created gets a transaction of
\* its own; with a batching policy it runs in the thread's current transaction
exec(s) ==
    LET i == Len(s.ops)
        s1 == IF s.policy = SINGLE
              THEN processTx(s, s.scope_store_names, s.scope_mode, "none")
              ELSE s
        k == Len(s1.txs)
    IN  IF k > 0 /\ s1.txs[k].state = "active"
        THEN [s1 EXCEPT !.ops[i].tx = k, !.r_no_ = @ + 1]
        ELSE s1

\* one more commit() call since break_tx_ was last false
noteCommit(s) ==
    [s EXCEPT !.commits = IF s.err # "none" THEN @
                          ELSE IF @ = "none" THEN "once" ELSE "repeated"]

RECURSIVE issue(_, _, _)
issue(s, n, issuer) ==
    IF n = 0 THEN s ELSE issue(exec(request(s, issuer)), n - 1, issuer)

\* the coroutine body between two yields: it receives x (the first call
\* starts it and passes nothing), creates its requests, may call commit(),
\* and then yields or returns. x.val is the value, x.src the request it is
\* the settlement of.
body(s, x) ==
    LET step == StepOf(s.generator_, s.pc + 1)
        s1 == IF s.genState = "new" THEN s ELSE [s EXCEPT !.received = Append(@, x.src)]
        s2 == issue(s1, step.issue, "gen")
        s3 == IF step.commit THEN noteCommit(commit(s2)) ELSE s2
    IN  [s3 EXCEPT !.pc = @ + 1,
                   !.genState = IF step.fin THEN "done" ELSE "suspended"]

\* generator_['next'](x): a finished generator ignores the call
next(s, x) ==
    LET s1 == [s EXCEPT !.nextArg = x.val]
    IN  IF s.genState = "done" THEN s1 ELSE body(s1, x)

\* sendNext_ that forgets to clear break_tx_
sendNext_KeepsBreak(s, x) ==
    IF s.break_tx_
    THEN [s EXCEPT !.timers = Append(@, x)]
    ELSE next(s, x)

\* sendNext_ that schedules one deferred task for every commit() call
sendNext_PerCommit(s, x) ==
    IF s.break_tx_
    THEN [s EXCEPT !.break_tx_ = FALSE,
                   !.timers = IF s.commits = "repeated" THEN Append(Append(@, x), x)
                              ELSE Append(@, x)]
    ELSE next(s, x)

\* sendNext_, up to the setTimeout call
sendNext_(s, x) ==
    IF s.break_tx_
    THEN [s EXCEPT !.break_tx_ = FALSE, !.timers = Append(@, x)]
    ELSE next(s, x)

\* the deferred task that reopens over the store names alone
timeoutDropsMode(s) ==
    LET x == Head(s.timers)
        s1 == [s EXCEPT !.timers = Tail(@)]
    IN  next(processTx(s1, s.scope_store_names, "undefined", "unbound"), x)

\* the function sendNext_ hands to setTimeout
timeout(s) ==
    LET x == Head(s.timers)
        s1 == [s EXCEPT !.timers = Tail(@)]
    IN  next(processTx(s1, s.scope_store_names, s.scope_mode, "unbound"), x)

\* the callbacks request() adds to a wired request
IsError(e) == e.kind = "Error"
NewError == [kind |-> "Error", id |-> "new", error |-> "undefined"]

callback(s, x) == sendNext_(s, x)

\* the errback without the wrapping of a reason that is no Error
errbackNoWrap(s, e) == sendNext_(s, e)

errback(s, e) ==
    LET err == IF ~IsError(e.val) THEN [NewError EXCEPT !.error = e.val.id] ELSE e.val
    IN  sendNext_(s, [e EXCEPT !.val = err])

\* ydn.db.Request.setDbValue on the initiating request: it settles once
setDbValue(s, r, value, failed, k) ==
    IF r \notin Reqs
    THEN [s EXCEPT !.err = "TypeError"]
    ELSE IF s.reqs[r].settled
         THEN [s EXCEPT !.err = "AlreadyCalledError"]
         ELSE [s EXCEPT !.reqs[r] = [settled |-> TRUE, value |-> value,
                                     failed |-> failed, by |-> k]]

\* onGenTxCommitted_ reporting success where it should report failure
onGenTxCommitted_Inverted(s, self, type, k) ==
    LET done == type = COMPLETE \/ type = ABORT
        this_break_tx_ == IF self = "thread" THEN s.break_tx_ ELSE FALSE
        this_gen_req_ == IF self = "thread" THEN s.gen_req_ ELSE "undefined"
    IN  IF done /\ ~this_break_tx_
        THEN LET success == type = COMPLETE
             IN  setDbValue(s, this_gen_req_, getTxNo(s), success, k)
        ELSE s

\* onGenTxCommitted_ that takes every event for the end of the transaction
onGenTxCommitted_AnyType(s, self, type, k) ==
    LET this_break_tx_ == IF self = "thread" THEN s.break_tx_ ELSE FALSE
        this_gen_req_ == IF self = "thread" THEN s.gen_req_ ELSE "undefined"
    IN  IF ~this_break_tx_
        THEN LET success == type = COMPLETE
             IN  setDbValue(s, this_gen_req_, getTxNo(s), ~success, k)
        ELSE s

\* onGenTxCommitted_ with `this` the thread (the goog.bind of setGenerator) or
\* the global object (the unbound reference sendNext_ passes to processTx)
onGenTxCommitted_(s, self, type, k) ==
    LET done == type = COMPLETE \/ type = ABORT
        this_break_tx_ == IF self = "thread" THEN s.break_tx_ ELSE FALSE
        this_gen_req_ == IF self = "thread" THEN s.gen_req_ ELSE "undefined"
    IN  IF done /\ ~this_break_tx_
        THEN LET success == type = COMPLETE
             IN  setDbValue(s, this_gen_req_, getTxNo(s), ~success, k)
        ELSE s

\* the engine fires an event of transaction k and calls its completion handler
txEvent(s, k, type) ==
    LET s1 == IF type = ERROR THEN s ELSE [s EXCEPT !.txs[k].state = type]
        h == s.txs[k].oncompleted
    IN  IF h = "bound" THEN onGenTxCommitted_(s1, "thread", type, k)
        ELSE IF h = "unbound" THEN onGenTxCommitted_(s1, "global", type, k)
        ELSE s1

\* a request settles and its callbacks run; with policy ATOMIC a failed
\* request dooms its transaction
settle(s, i, out) ==
    LET k == s.ops[i].tx
        s0 == IF ~out.ok /\ s.policy = ATOMIC /\ k # 0
              THEN [s EXCEPT !.txs[k].aborting = TRUE]
              ELSE s
        s1 == [s0 EXCEPT !.ops[i].state = "settled", !.input = out]
        x == [src |-> i, val |-> out.v]
    IN  IF ~s.ops[i].wired THEN s1
        ELSE IF out.ok THEN callback(s1, x)
        ELSE errback(s1, x)

\* the owner of the coroutine starts the generator: with a batching policy
\* inside the driving transaction, which it opens with the callback
\* setGenerator returned; with policy SINGLE every request opens its own
spawn(s) ==
    LET s1 == IF s.policy = SINGLE THEN s
              ELSE processTx(s, s.scope_store_names, s.scope_mode, "bound")
    IN  next(s1, [src |-> 0, val |-> NoValue])

----------------------------------------------------------------------------
(* The static cancellation primitive *)

\* goog.isFunction
isFunction(v) == v = "function"

\* error_callback of the static abort: 'return true; // roll back'
error_callback == TRUE

\* the engine ends the transaction the handle stands for with ABORT
rollback(s, tx) == [s EXCEPT !.txs[tx.k].aborting = TRUE]

\* tx.abort(): the native primitive
nativeAbort(s, tx) == [rollback(s, tx) EXCEPT !.effect = "tx.abort()"]

\* tx.executeSql(statement, [], null, errcb): the statement ABORT is not SQL,
\* it fails, and the transaction is rolled back when errcb returns true
executeSql(s, tx, statement, errcb) ==
    IF statement = "ABORT"
    THEN IF errcb
         THEN [rollback(s, tx) EXCEPT !.effect = "tx.executeSql('ABORT'): roll back"]
         ELSE [s EXCEPT !.effect = "tx.executeSql('ABORT'): error ignored"]
    ELSE [s EXCEPT !.effect = "tx.executeSql"]

abortPrefersSql(s, tx) ==
    LET s1 == [s EXCEPT !.arg = tx]
    IN  IF tx.k # 0
        THEN IF isFunction(tx.executeSql) THEN executeSql(s1, tx, "ABORT", error_callback)
             ELSE IF isFunction(tx.abort) THEN nativeAbort(s1, tx)
             ELSE [s1 EXCEPT !.err = "NotSupportedException"]
        ELSE [s1 EXCEPT !.err = "InvalidStateError"]

\* ydn.db.tr.Thread.abort(tx), the static cancellation primitive
abort(s, tx) ==
    LET s1 == [s EXCEPT !.arg = tx]
    IN  IF tx.k # 0
        THEN IF isFunction(tx.abort) THEN nativeAbort(s1, tx)
             ELSE IF isFunction(tx.executeSql)
                  THEN executeSql(s1, tx, "ABORT", error_callback)
                  ELSE [s1 EXCEPT !.err = "NotSupportedException"]
        ELSE [s1 EXCEPT !.err = "InvalidStateError"]

(* Actions *)

ClientOps == Cardinality({i \in 1..Len(ops) : ops[i].issuer = "client"})

\* the thread after construction with the given arguments
InitWith(policies, store_names, modes) ==
    /\ policy \in {policyOf(p) : p \in policies}
    /\ scope_store_names \in store_names
    /\ scope_mode \in modes
    /\ tx_no_ = Thread.tx_no_
    /\ r_no_ = Thread.r_no_
    /\ generator_ = Thread.generator_
    /\ gen_req_ = Thread.gen_req_
    /\ break_tx_ = Thread.break_tx_
    /\ txs = <<>>
    /\ ops = <<>>
    /\ timers = <<>>
    /\ genState = "new"
    /\ pc = 0
    /\ received = <<>>
    /\ reqs = [r \in Reqs |-> [settled |-> FALSE, value |-> 0, failed |-> FALSE, by |-> 0]]
    /\ commits = "none"
    /\ lastCall = [op |-> "new", err |-> "none", input |-> NoInput, nextArg |-> NoCall,
                   arg |-> NullHandle, effect |-> "none"]

\* a thread with a batching policy over the scope {"orders"}, read-write
Init == InitWith({ALL}, {"orders"}, {"readwrite"})

\* a client binds a coroutine (or null) with a fresh initiating request
SetGenerator ==
    \E gen \in Gens \cup {"null"}, req \in Reqs :
        /\ req = IF gen_req_ = "null" THEN "q1" ELSE "q2"
        /\ Apply("setGenerator", setGenerator(S, gen, req))

\* a client binds one of the given coroutines
Bind(gens) ==
    \E gen \in gens :
        /\ gen_req_ = "null"
        /\ Apply("setGenerator", setGenerator(S, gen, "q1"))

Spawn ==
    /\ Truthy(generator_)
    /\ genState = "new"
    /\ txs = <<>>
    /\ Apply("spawn", spawn(S))

\* A thread has one owner while its coroutine drives it: client code outside
\* the coroutine calls request() and commit() before a coroutine is bound and
\* after the coroutine has returned.
ClientTurn == ~Truthy(generator_) \/ genState = "done"

Request ==
    /\ ClientTurn
    /\ ClientOps < MaxClientOps
    /\ Apply("request", exec(request(S, "client")))

Commit ==
    /\ ClientTurn
    /\ Apply("commit", noteCommit(commit(S)))

Settle ==
    \E i \in 1..Len(ops), out \in Outcomes :
        /\ ops[i].state = "pending"
        /\ IF ops[i].tx = 0 THEN TRUE
           ELSE /\ txs[ops[i].tx].state = "active"
                /\ txs[ops[i].tx].aborting => ~out.ok
        /\ Apply("settle", settle(S, i, out))

Timeout ==
    /\ timers # <<>>
    /\ Apply("timeout", timeout(S))

TxEvent ==
    \E k \in 1..Len(txs), type \in TxEventTypes :
        /\ txs[k].state = "active"
        /\ type # ERROR => \A i \in 1..Len(ops) : ops[i].tx = k => ops[i].state # "pending"
        /\ type = COMPLETE => ~txs[k].aborting
        /\ Apply(type, txEvent(S, k, type))

Next ==
    \/ SetGenerator
    \/ Spawn
    \/ Request
    \/ Commit
    \/ Settle
    \/ Timeout
    \/ TxEvent

Spec == Init /\ [][Next]_vars

\* The static abort, called on the handle of an active transaction of a
\* coroutine-driven thread or on a null handle. What the handle offers
\* depends on the storage engine behind it.
Handles ==
    {NullHandle} \cup
    {[k |-> k, abort |-> a, executeSql |-> e] :
        k \in {j \in 1..Len(txs) : txs[j].state = "active"}, a \in Surfaces, e \in Surfaces}

AbortTx ==
    \E tx \in Handles : Apply("Thread.abort", abort(S, tx))

BindAbort == Bind({"commitMid"})

NextAbort ==
    \/ BindAbort
    \/ Spawn
    \/ Settle
    \/ Timeout
    \/ TxEvent
    \/ AbortTx

SpecAbort == Init /\ [][NextAbort]_vars

\* A thread constructed with policy SINGLE or with no policy at all, driven
\* by a coroutine that issues its operations one after the other.
InitSingle == InitWith({"undefined", SINGLE}, {"orders"}, {"readwrite"})

BindSingle == Bind(SeqGens)

NextSingle ==
    \/ BindSingle
    \/ Spawn
    \/ Settle
    \/ TxEvent

SpecSingle == InitSingle /\ [][NextSingle]_vars

\* A thread constructed over one of several scopes (the constructor accepts
\* a missing scope too), driven by a coroutine that calls commit().
InitScope ==
    InitWith({ALL}, {"orders", "orders,lines", "undefined"},
             {"readwrite", "readonly", "undefined"})

BindScope == Bind({"commitMid", "parCommit"})

NextScope ==
    \/ BindScope
    \/ Spawn
    \/ Settle
    \/ Timeout
    \/ TxEvent

SpecScope == InitScope /\ [][NextScope]_vars

\* A thread constructed with policy ATOMIC, driven by a coroutine that queues
\* three writes in its transaction.
InitAtomic == InitWith({ATOMIC}, {"orders"}, {"readwrite"})

BindAtomic == Bind(WriteGens)

NextAtomic ==
    \/ BindAtomic
    \/ Spawn
    \/ Settle
    \/ TxEvent

SpecAtomic == InitAtomic /\ [][NextAtomic]_vars

----------------------------------------------------------------------------
(* Notions the properties use *)

ActiveTxs == {k \in 1..Len(txs) : txs[k].state = "active"}
PendingOps == {i \in 1..Len(ops) : ops[i].state = "pending"}
OpsIn(k) == {i \in 1..Len(ops) : ops[i].tx = k}

\* nothing of the thread is left to run: no transaction is open, no request
\* is pending and no deferred task is scheduled
Quiescent == ActiveTxs = {} /\ PendingOps = {} /\ timers = <<>>

\* the coroutine has returned
Concluded == Truthy(generator_) /\ genState = "done"

\* the terminal state of a coroutine-driven thread: its coroutine has returned
\* and its last transaction has completed or aborted with nothing to continue
ENDED == Concluded /\ txs # <<>> /\ Quiescent

\* transaction k has just ended with the event COMPLETE or ABORT
Ends(k) == k \in ActiveTxs /\ txs'[k].state # "active"

\* the write of operation i can be read back: its transaction has committed
Observable(i) == ops[i].tx # 0 /\ txs[ops[i].tx].state = COMPLETE

----------------------------------------------------------------------------
(* Properties *)

\* C1: at most one transaction of the thread is active in every reachable state.
C1_OneActiveTx == Cardinality(ActiveTxs) <= 1

\* C2: a transaction opened by the deferred task of sendNext_ is opened only
\* after the previous transaction of the thread has fired COMPLETE or ABORT.
C2_EndBeforeOpen ==
    [][(Len(txs') = Len(txs) + 1 /\ txs'[Len(txs')].oncompleted = "unbound" /\ txs # <<>>)
        => txs[Len(txs)].state # "active"]_vars

\* C3: while the coroutine drives the thread, the initiating request is
\* settled only by the end of the last transaction: never by the completion
\* event of a transaction after which another transaction is opened.
C3_SettledByLastTx ==
    \A r \in Reqs : (reqs[r].settled /\ ClientOps = 0) => reqs[r].by = Len(txs)

\* C4: when the callback setGenerator returned is called with COMPLETE or
\* ABORT, it resolves the initiating request with the current tx_no_ and
\* failed = (type is ABORT) if break_tx_ is false, and leaves the request
\* unsettled if break_tx_ is true.
C4_Continuation ==
    [][\A k \in 1..Len(txs) :
        (Ends(k) /\ txs[k].oncompleted = "bound")
        => IF break_tx_
           THEN reqs' = reqs /\ ~reqs'[gen_req_].settled
           ELSE /\ reqs'[gen_req_].settled
                /\ reqs'[gen_req_].value = tx_no_
                /\ reqs'[gen_req_].failed = (txs'[k].state = ABORT)]_vars

C4_Witness ==
    /\ gen_req_ \in Reqs
    /\ lastCall.op = ABORT
    /\ reqs[gen_req_].settled
    /\ reqs[gen_req_].failed
    /\ reqs[gen_req_].value = tx_no_

\* C5: once the coroutine has returned and its last transaction has ended,
\* with no request pending and no deferred task left, the initiating request
\* is resolved.
C5_ResolvedAtEnd == (ENDED /\ ClientOps = 0) => reqs[gen_req_].settled

\* C6: tx_no_ changes only by +1 and exactly when a transaction of the thread
\* begins; r_no_ is the number of requests issued in the current transaction
\* and starts again from 0 exactly when a transaction begins; the coroutine
\* that issues 2 requests, calls commit() and issues 2 more ends with
\* tx_no_ = 2.
ScenarioEnded ==
    generator_ = "scenario" /\ genState = "done" /\ ClientOps = 0 /\ Quiescent

C6_CountersInv ==
    /\ tx_no_ = Len(txs)
    /\ r_no_ = IF txs = <<>> THEN 0 ELSE Cardinality(OpsIn(Len(txs)))
    /\ ScenarioEnded => tx_no_ = 2

C6_CountersStep ==
    /\ tx_no_' # tx_no_ => tx_no_' = tx_no_ + 1
    /\ tx_no_' # tx_no_ <=> Len(txs') = Len(txs) + 1
    /\ Len(txs') \in {Len(txs), Len(txs) + 1}
    /\ r_no_' < r_no_ => Len(txs') = Len(txs) + 1
    /\ Len(txs') = Len(txs) + 1
        => r_no_' = Cardinality({i \in Len(ops) + 1 .. Len(ops') : ops'[i].tx = Len(txs')})
    /\ Len(txs') = Len(txs) => r_no_' = r_no_ + (Len(ops') - Len(ops))
                               \/ (r_no_' = r_no_ /\ \A i \in Len(ops) + 1 .. Len(ops') : ops'[i].tx = 0)

C6_Counters == []C6_CountersInv /\ [][C6_CountersStep]_vars

C6_Witness == ScenarioEnded /\ tx_no_ = 2 /\ r_no_ = 2 /\ Len(ops) = 4

\* C7: setGenerator on a thread that has a coroutine bound fails with an
\* assertion error and leaves generator_ and gen_req_ as they were; a bound
\* coroutine is never replaced.
C7_SingleBinding ==
    [][Truthy(generator_)
        => /\ generator_' = generator_
           /\ gen_req_' = gen_req_
           /\ lastCall'.op = "setGenerator" => lastCall'.err = "AssertionError"]_vars

C7_Witness ==
    lastCall.op = "setGenerator" /\ lastCall.err = "AssertionError" /\ Truthy(generator_)

\* C8: commit() with no coroutine ever bound fails with an invalid-operation
\* error, commit() after the bound coroutine has returned fails with a
\* different invalid-operation error, and both leave break_tx_ unchanged.
C8_CommitRejected ==
    [][lastCall'.op = "commit"
        => /\ ~isDef(generator_)
               => /\ lastCall'.err = "InvalidOperation: not running in a generator"
                  /\ break_tx_' = break_tx_
           /\ Concluded
               => /\ lastCall'.err = "InvalidOperation: has been ended"
                  /\ break_tx_' = break_tx_]_vars

\* C9: a thread that has reached ENDED stays there, and a later request() or
\* commit() is rejected: no request is created and break_tx_ is not set.
C9_EndedIsTerminal ==
    [][ENDED
        => /\ ENDED'
           /\ lastCall'.op = "request" => (ops' = ops /\ lastCall'.err # "none")
           /\ lastCall'.op = "commit" => (break_tx_' = break_tx_ /\ lastCall'.err # "none")]_vars

\* C10: the settlement of a request wired to the coroutine hands sendNext_
\* the success value itself, a failure reason that is an Error itself, and
\* for any other failure reason r a new Error whose error field is r; that
\* value is what generator_['next'] is called with, at once or by the
\* deferred task after a commit().
Resumed(out) ==
    IF out.ok THEN out.v
    ELSE IF out.v.kind = "Error" THEN out.v
    ELSE [kind |-> "Error", id |-> "new", error |-> out.v.id]

C10_ResumeValue ==
    [][/\ \A i \in 1..Len(ops) :
            (ops[i].state = "pending" /\ ops'[i].state = "settled" /\ ops[i].wired)
            => IF break_tx_
               THEN /\ timers' = Append(timers, [src |-> i, val |-> Resumed(lastCall'.input)])
                    /\ lastCall'.nextArg = NoCall
                    /\ received' = received
               ELSE /\ lastCall'.nextArg = Resumed(lastCall'.input)
                    /\ genState # "done" => received' = Append(received, i)
                    /\ timers' = timers
       /\ Len(timers') < Len(timers)
            => /\ lastCall'.nextArg = Head(timers).val
               /\ genState # "done" => received' = Append(received, Head(timers).src)]_vars

C10_Witness ==
    /\ lastCall.op = "settle"
    /\ lastCall.input = [ok |-> FALSE, v |-> [kind |-> "plain", id |-> "disk full", error |-> "none"]]
    /\ lastCall.nextArg = [kind |-> "Error", id |-> "new", error |-> "disk full"]
    /\ received # <<>>

\* C11: the static abort has four outcomes, decided by the handle alone. A
\* null handle: an invalid-state error and nothing else. A handle whose abort
\* is a function: tx.abort() is called, whatever else the handle offers. No
\* such abort but an executeSql function: the failing statement ABORT is
\* issued and its error callback asks for the roll back. Neither: a
\* not-supported error, and no transaction is touched.
C11_AbortOutcomes ==
    [][lastCall'.op = "Thread.abort" =>
        LET tx == lastCall'.arg
            out == lastCall'
        IN  /\ tx.k = 0 =>
                out.err = "InvalidStateError" /\ out.effect = "none" /\ txs' = txs
            /\ tx.k # 0 /\ tx.abort = "function" =>
                out.err = "none" /\ out.effect = "tx.abort()" /\ txs'[tx.k].aborting
            /\ tx.k # 0 /\ tx.abort # "function" /\ tx.executeSql = "function" =>
                /\ out.err = "none"
                /\ out.effect = "tx.executeSql('ABORT'): roll back"
                /\ txs'[tx.k].aborting
            /\ tx.k # 0 /\ tx.abort # "function" /\ tx.executeSql # "function" =>
                out.err = "NotSupportedException" /\ out.effect = "none" /\ txs' = txs
    ]_vars

C11_Witness ==
    /\ lastCall.op = "Thread.abort"
    /\ lastCall.arg.k # 0
    /\ lastCall.arg.abort = "object"
    /\ lastCall.arg.executeSql = "function"
    /\ lastCall.effect = "tx.executeSql('ABORT'): roll back"
    /\ txs[lastCall.arg.k].aborting

\* C12: a thread constructed with policy SINGLE, or with no policy, opens one
\* transaction per operation: when a coroutine that issues N operations one
\* after the other has returned and all of them have settled, N transactions
\* were opened and tx_no_ = N; and r_no_ = 1 whenever an operation settles.
C12_SingleInv ==
    /\ policy = SINGLE
    /\ \A i \in 1..Len(ops) : ops[i].tx = i
    /\ (Truthy(generator_) /\ genState = "done" /\ PendingOps = {}) =>
            /\ Len(ops) = IssuedFrom(generator_, 1)
            /\ Len(txs) = IssuedFrom(generator_, 1)
            /\ tx_no_ = IssuedFrom(generator_, 1)

C12_SingleStep == lastCall'.op = "settle" => r_no_ = 1

C12_Single == []C12_SingleInv /\ [][C12_SingleStep]_vars

C12_Witness ==
    /\ generator_ = "seq3"
    /\ genState = "done"
    /\ PendingOps = {}
    /\ tx_no_ = 3
    /\ Len(txs) = 3

\* C13: with policy ATOMIC, a transaction in which a queued write has failed
\* ends with ABORT, the initiating request is then resolved with failed =
\* TRUE, and none of the writes queued in it can be read back.
C13_AtomicAbort ==
    \A k \in 1..Len(txs) :
        (policy = ATOMIC /\ txs[k].aborting /\ txs[k].state # "active") =>
            /\ txs[k].state = ABORT
            /\ \A i \in OpsIn(k) : ~Observable(i)
            /\ gen_req_ # "null" =>
                    reqs[gen_req_].settled /\ reqs[gen_req_].failed

\* C14: when a wired operation settles while break_tx_ is true, sendNext_
\* clears the flag, does not resume the coroutine in that step and opens no
\* transaction, and schedules one deferred task holding the value. The task
\* opens exactly one transaction, over the thread's own store names and
\* mode, and in it resumes the coroutine once with the value it holds. The
\* thread's scope never changes.
C14_Settlement ==
    \A i \in 1..Len(ops) :
        (ops[i].state = "pending" /\ ops'[i].state = "settled" /\ ops[i].wired /\ break_tx_) =>
            /\ ~break_tx_'
            /\ lastCall'.nextArg = NoCall
            /\ pc' = pc /\ genState' = genState /\ received' = received
            /\ timers' = Append(timers, [src |-> i, val |-> Resumed(lastCall'.input)])
            /\ Len(txs') = Len(txs) /\ tx_no_' = tx_no_

C14_Task ==
    lastCall'.op = "timeout" =>
        /\ timers # <<>> /\ timers' = Tail(timers)
        /\ Len(txs') = Len(txs) + 1
        /\ tx_no_' = tx_no_ + 1
        /\ \A k \in 1..Len(txs) : txs'[k] = txs[k]
        /\ txs'[Len(txs')].state = "active"
        /\ txs'[Len(txs')].store_names = scope_store_names
        /\ txs'[Len(txs')].mode = scope_mode
        /\ lastCall'.nextArg = Head(timers).val
        /\ genState # "done" =>
                /\ pc' = pc + 1
                /\ received' = Append(received, Head(timers).src)
                /\ \A j \in 1..Len(ops') : j > Len(ops) => ops'[j].tx = Len(txs')

C14_Reopen ==
    [][/\ C14_Settlement
       /\ C14_Task
       /\ scope_store_names' = scope_store_names
       /\ scope_mode' = scope_mode]_vars

C14_Witness ==
    /\ lastCall.op = "timeout"
    /\ scope_store_names = "orders,lines"
    /\ scope_mode = "readwrite"
    /\ Len(txs) = 2
    /\ txs[2].store_names = "orders,lines"
    /\ txs[2].mode = "readwrite"
    /\ received # <<>>
    /\ lastCall.nextArg = [kind |-> "Error", id |-> "new", error |-> "disk full"]

\* C15: a commit() that succeeds only sets break_tx_: it opens, completes and
\* aborts no transaction, does not resume the coroutine, and leaves tx_no_
\* and r_no_ as they were. Transactions are opened one at a time by the owner
\* of the coroutine and by the deferred task, and a deferred task is
\* scheduled only by a settlement.
C15_CommitFrame ==
    [][/\ (lastCall'.op = "commit" /\ lastCall'.err = "none") =>
            /\ break_tx_'
            /\ txs' = txs /\ tx_no_' = tx_no_ /\ r_no_' = r_no_
            /\ timers' = timers /\ ops' = ops
            /\ pc' = pc /\ genState' = genState /\ received' = received
            /\ lastCall'.nextArg = NoCall
            /\ generator_' = generator_ /\ gen_req_' = gen_req_ /\ reqs' = reqs
       /\ Len(txs') > Len(txs) =>
            Len(txs') = Len(txs) + 1 /\ lastCall'.op \in {"spawn", "timeout"}
       /\ Len(timers') > Len(timers) => lastCall'.op = "settle"
       /\ tx_no_' # tx_no_ => Len(txs') > Len(txs)
    ]_vars

C15_Witness ==
    /\ lastCall.op = "commit"
    /\ lastCall.err = "none"
    /\ break_tx_
    /\ ActiveTxs # {}
    /\ tx_no_ = 1

\* C16: every settlement of a wired operation resumes the coroutine exactly
\* once, and the coroutine receives the settlement values in the order the
\* operations were issued: a value is never received twice, and when the
\* value of operation i is received every earlier wired operation that has
\* settled has had its value received already. When break_tx_ is false the
\* resume happens in the settlement itself, tx_no_ stays and no transaction
\* is opened.
C16_ResumeInOrder ==
    [][/\ \A i \in 1..Len(ops) :
            (ops[i].state = "pending" /\ ops'[i].state = "settled" /\ ops[i].wired
                /\ ~break_tx_) =>
                /\ lastCall'.nextArg = Resumed(lastCall'.input)
                /\ tx_no_' = tx_no_
                /\ Len(txs') = Len(txs)
                /\ genState # "done" => received' = Append(received, i)
       /\ \A i \in 1..Len(ops) :
            received' = Append(received, i) =>
                /\ \A n \in 1..Len(received) : received[n] # i
                /\ \A j \in 1..(i - 1) :
                        (ops[j].wired /\ ops[j].state = "settled") =>
                            \E n \in 1..Len(received) : received[n] = j
    ]_vars

\* C17: request() on a thread with no bound coroutine appends a pending
\* operation that is not wired to sendNext_ and changes nothing else of the
\* thread (tx_no_, break_tx_, the scope, gen_req_, generator_). The
\* settlement of an unwired operation resumes nothing, schedules no deferred
\* task and opens no transaction. Whether an operation is wired is fixed when
\* it is created: one created before setGenerator stays unwired afterwards.
C17_Unwired ==
    [][/\ (lastCall'.op = "request" /\ ~Truthy(generator_)) =>
            /\ Len(ops') = Len(ops) + 1
            /\ ops'[Len(ops')].state = "pending"
            /\ ~ops'[Len(ops')].wired
            /\ \A i \in 1..Len(ops) : ops'[i] = ops[i]
            /\ tx_no_' = tx_no_ /\ break_tx_' = break_tx_
            /\ scope_store_names' = scope_store_names /\ scope_mode' = scope_mode
            /\ gen_req_' = gen_req_ /\ generator_' = generator_
            /\ txs' = txs /\ timers' = timers /\ reqs' = reqs
            /\ lastCall'.nextArg = NoCall
       /\ \A i \in 1..Len(ops) :
            (ops[i].state = "pending" /\ ops'[i].state = "settled" /\ ~ops[i].wired) =>
                /\ lastCall'.nextArg = NoCall
                /\ pc' = pc /\ genState' = genState /\ received' = received
                /\ timers' = timers
                /\ txs' = txs /\ tx_no_' = tx_no_ /\ break_tx_' = break_tx_
       /\ \A i \in 1..Len(ops) : ops'[i].wired = ops[i].wired
    ]_vars

C17_Witness ==
    /\ lastCall.op = "settle"
    /\ Truthy(generator_)
    /\ genState = "suspended"
    /\ \E i \in 1..Len(ops) :
            /\ ops[i].issuer = "client"
            /\ ~ops[i].wired
            /\ ops[i].state = "settled"
    /\ \A i \in 1..Len(ops) : ops[i].issuer = "gen" => ops[i].state = "pending"
    /\ received = <<>>

\* C18: commit() is idempotent between two settlements. A commit() called
\* while break_tx_ is already true changes nothing. However many times it was
\* called, the next settlement of a wired operation schedules exactly one
\* deferred task and clears break_tx_, the task opens exactly one
\* transaction, and break_tx_ is true again only after a new commit().
C18_Idempotent ==
    [][/\ (lastCall'.op = "commit" /\ lastCall'.err = "none" /\ break_tx_) =>
            /\ break_tx_'
            /\ txs' = txs /\ tx_no_' = tx_no_ /\ timers' = timers /\ ops' = ops
            /\ pc' = pc /\ received' = received
       /\ \A i \in 1..Len(ops) :
            (ops[i].state = "pending" /\ ops'[i].state = "settled" /\ ops[i].wired
                /\ commits # "none") =>
                /\ Len(timers') = Len(timers) + 1
                /\ ~break_tx_'
                /\ commits' = "none"
       /\ Len(timers') <= Len(timers) + 1
       /\ lastCall'.op = "timeout" =>
            Len(timers') = Len(timers) - 1 /\ Len(txs') = Len(txs) + 1
       /\ Len(txs') > Len(txs) => lastCall'.op \in {"spawn", "timeout"}
       /\ (break_tx_' /\ ~break_tx_) => commits' = "once"
       /\ break_tx_' <=> commits' # "none"
    ]_vars

C18_Witness ==
    /\ commits = "repeated"
    /\ break_tx_
    /\ lastCall.op = "commit"
    /\ timers = <<>>
    /\ \E i \in 1..Len(ops) : ops[i].wired /\ ops[i].state = "pending"

\* C19: when the completion handler is called with an event type that is
\* neither COMPLETE nor ABORT, no initiating request is settled and tx_no_,
\* break_tx_, generator_ and gen_req_ stay as they were.
C19_OtherEvent ==
    [][lastCall'.op = ERROR =>
            /\ reqs' = reqs
            /\ tx_no_' = tx_no_
            /\ break_tx_' = break_tx_
            /\ generator_' = generator_
            /\ gen_req_' = gen_req_
            /\ txs' = txs
    ]_vars

C19_Witness ==
    /\ lastCall.op = ERROR
    /\ Truthy(generator_)
    /\ ~break_tx_
    /\ gen_req_ = "q1"
    /\ ~reqs["q1"].settled
    /\ \E k \in ActiveTxs : txs[k].oncompleted = "bound"

====
